---------------------------- MODULE Spec2Model ----------------------------
(***************************************************************************)
(* Model of the duplicate-detection service of docugenai-service           *)
(* (app/services/duplicate_detector.py) and of the configuration that      *)
(* constructs it (app/config.py, app/routers/analysis.py).                 *)
(*                                                                         *)
(* Representation of values                                                *)
(*  - str: a TLA+ string; Len, \o and SubSeq work on characters.           *)
(*  - dict with optional keys (info, components, an existing record): a    *)
(*    record; d.get(k, default) is Get(d, k, default) on its DOMAIN.       *)
(*  - insertion-ordered dict that is iterated (paths, methods): a sequence *)
(*    of <<key, value>> pairs with distinct keys.                          *)
(*  - numpy 1-D array: [dim |-> n, nz |-> <<x1..xk>>], the vector of n     *)
(*    components whose first k are x1..xk and whose others are 0.          *)
(*  - float similarity: the exact value num / sqrt(den2) as the pair       *)
(*    [num, den2]; percentages are integers (0.70 is 70).                  *)
(***************************************************************************)
EXTENDS Integers, Sequences, FiniteSets, TLC

VARIABLES
    settings,           \* Settings(): DUPLICATE_THRESHOLD, EMBEDDING_MODEL
    detector,           \* DuplicateDetector instance: embedding_model, threshold
    failing,            \* texts for which the embedding client raises
    spec,               \* find_duplicates argument: the current spec
    existing_apis,      \* find_duplicates argument: the existing records
    pc,                 \* position in find_duplicates
    idx,                \* loop position in existing_apis (1-based)
    current_embedding,  \* local of find_duplicates
    duplicates,         \* local of find_duplicates, then its return value
    calls,              \* number of find_duplicates calls started
    prev,               \* outcomes of the earlier calls on the same inputs
    requests,           \* requests made to the embedding client in this call
    probe,              \* last application of a helper on its own: inputs, result
    api_database,       \* analysis.py: the stored records, in insertion order
    history_store,      \* DocScoreEngine.history_store: entries per api_id
    response,           \* status code of the last response
    request,            \* the last request: handler and arguments
    improved_files,     \* the files written to the temporary directory
    served              \* number of requests handled

vars == <<settings, detector, failing, spec, existing_apis, pc, idx,
          current_embedding, duplicates, calls, prev, requests, probe,
          api_database, history_store, response, request, improved_files,
          served>>

\* the state of the routers
app == <<api_database, history_store, response, request, improved_files, served>>

(***************************************************************************)
(* Bounds of the model.                                                    *)
(***************************************************************************)
MaxRecords == 2
MaxCalls == 2
MaxPaths == 2

(***************************************************************************)
(* Python values.                                                          *)
(***************************************************************************)
\* None, kept apart from every string the model uses.
None == "<None>"

\* str(x) as an f-string renders it.
Str(x) == IF x = None THEN "None" ELSE x

\* d.get(k, default)
Get(d, k, default) == IF k \in DOMAIN d THEN d[k] ELSE default

\* set(d.keys()) of an insertion-ordered dict
Keys(d) == {d[i][1] : i \in 1..Len(d)}

(***************************************************************************)
(* str methods used by _paths_similar.                                     *)
(***************************************************************************)
UpperChars == "ABCDEFGHIJKLMNOPQRSTUVWXYZ"
LowerChars == "abcdefghijklmnopqrstuvwxyz"

\* the lower-case letter of every upper-case letter
LowerMap ==
    [c \in {SubSeq(UpperChars, i, i) : i \in 1..Len(UpperChars)} |->
        LET i == CHOOSE j \in 1..Len(UpperChars) : SubSeq(UpperChars, j, j) = c
        IN  SubSeq(LowerChars, i, i)]

LowerChar(c) == IF c \in DOMAIN LowerMap THEN LowerMap[c] ELSE c

RECURSIVE Lower(_)
\* s.lower()
Lower(s) ==
    IF Len(s) = 0 THEN s
    ELSE LowerChar(SubSeq(s, 1, 1)) \o Lower(SubSeq(s, 2, Len(s)))

RECURSIVE Replace(_, _)
\* s.replace(old, ''): leftmost non-overlapping occurrences removed
Replace(s, old) ==
    IF Len(s) < Len(old) THEN s
    ELSE IF SubSeq(s, 1, Len(old)) = old
         THEN Replace(SubSeq(s, Len(old) + 1, Len(s)), old)
         ELSE SubSeq(s, 1, 1) \o Replace(SubSeq(s, 2, Len(s)), old)

\* a in b, for strings
Contains(b, a) ==
    \E i \in 1..(Len(b) - Len(a) + 1) : SubSeq(b, i, i + Len(a) - 1) = a

(***************************************************************************)
(* numpy arrays and the similarity value.                                  *)
(***************************************************************************)
Vec(n, xs) == [dim |-> n, nz |-> xs]

\* np.zeros(n)
Zeros(n) == Vec(n, <<>>)

At(v, i) == IF i <= Len(v.nz) THEN v.nz[i] ELSE 0

RECURSIVE DotUpTo(_, _, _)
DotUpTo(a, b, k) ==
    IF k = 0 THEN 0 ELSE At(a, k) * At(b, k) + DotUpTo(a, b, k - 1)

\* np.dot(a, b) of two 1-D arrays of equal size
Dot(a, b) ==
    DotUpTo(a, b, IF Len(a.nz) < Len(b.nz) THEN Len(a.nz) ELSE Len(b.nz))

\* np.linalg.norm(a) ** 2
NormSq(a) == DotUpTo(a, a, Len(a.nz))

\* the float num / sqrt(den2)
Sim(num, den2) == [num |-> num, den2 |-> den2]

\* similarity >= pct / 100, for pct >= 0
SimGE(s, pct) ==
    IF pct = 0 THEN s.num >= 0
    ELSE s.num >= 0 /\ 10000 * s.num * s.num >= pct * pct * s.den2

\* similarity > pct / 100, for pct >= 0
SimGT(s, pct) ==
    s.num > 0 /\ 10000 * s.num * s.num > pct * pct * s.den2

\* floor(|similarity| * 100)
FloorAbsPct(s) ==
    CHOOSE k \in 0..100 :
        /\ k * k * s.den2 <= 10000 * s.num * s.num
        /\ (k = 100 \/ (k + 1) * (k + 1) * s.den2 > 10000 * s.num * s.num)

\* int(similarity * 100): truncation toward zero
IntPct(s) == IF s.num >= 0 THEN FloorAbsPct(s) ELSE 0 - FloorAbsPct(s)

\* round(similarity * 100): nearest integer, a tie to the even neighbour
RoundPct(s) ==
    LET f    == FloorAbsPct(s)
        \* compare |similarity| * 100 with f + 1/2
        lhs  == 40000 * s.num * s.num
        rhs  == (2 * f + 1) * (2 * f + 1) * s.den2
        mag  == IF f = 100 THEN 100
                ELSE IF lhs > rhs THEN f + 1
                ELSE IF lhs < rhs THEN f
                ELSE IF f % 2 = 0 THEN f ELSE f + 1
    IN  IF s.num >= 0 THEN mag ELSE 0 - mag


(***************************************************************************)
(* The embedding client (OpenAI embeddings endpoint): an external service  *)
(* that maps a text to a vector whose length the model fixes, or raises.   *)
(***************************************************************************)
ZeroDim == 1536

EmbeddingModels == {"text-embedding-3-small", "text-embedding-3-large"}

\* length of the vectors the service returns for a model
ModelDim(model) ==
    IF model = "text-embedding-3-small" THEN 1536 ELSE 3072

(***************************************************************************)
(* DuplicateDetector                                                       *)
(***************************************************************************)
\* __init__: the threshold is set in the constructor
DuplicateDetectorInit(embedding_model) ==
    [embedding_model |-> embedding_model, threshold |-> 70]

\* analysis.py: the module-level detector is built from the settings
BuildDetector(s) == DuplicateDetectorInit(s.EMBEDDING_MODEL)

HttpVerbs == {"get", "post", "put", "delete", "patch"}

RECURSIVE MethodParts(_, _)
\* the inner loop of _summarize_api over methods.items()
MethodParts(methods, k) ==
    IF k > Len(methods) THEN <<>>
    ELSE (IF methods[k][1] \in HttpVerbs
          THEN <<Get(methods[k][2], "summary", ""),
                 Get(methods[k][2], "description", "")>>
          ELSE <<>>) \o MethodParts(methods, k + 1)

RECURSIVE PathParts(_, _)
\* the outer loop of _summarize_api over paths.items()
PathParts(paths, k) ==
    IF k > Len(paths) THEN <<>>
    ELSE <<paths[k][1]>> \o MethodParts(paths[k][2], 1) \o PathParts(paths, k + 1)

RECURSIVE JoinAll(_, _)
\* variant: ' '.join(parts), the empty parts kept
JoinAll(parts, k) ==
    IF k > Len(parts) THEN ""
    ELSE IF k = Len(parts) THEN parts[k]
    ELSE parts[k] \o " " \o JoinAll(parts, k + 1)

RECURSIVE JoinNonEmpty(_, _)
\* ' '.join(filter(None, parts))
JoinNonEmpty(parts, k) ==
    IF k > Len(parts) THEN ""
    ELSE LET rest == JoinNonEmpty(parts, k + 1)
         IN  IF parts[k] = "" THEN rest
             ELSE IF rest = "" THEN parts[k]
             ELSE parts[k] \o " " \o rest

\* _summarize_api
SummarizeApi(sp) ==
    LET info  == Get(sp, "info", [none |-> TRUE])
        parts == <<Get(info, "title", ""), Get(info, "description", "")>>
                 \o PathParts(Get(sp, "paths", <<>>), 1)
    IN  JoinNonEmpty(parts, 1)

\* spec.get('info', {}).get('title')
TitleOf(sp) == Get(Get(sp, "info", [none |-> TRUE]), "title", None)

(***************************************************************************)
(* The specs the inputs are drawn from.                                    *)
(***************************************************************************)
UsersSpec ==
    [openapi |-> "3.0.0",
     info  |-> [title |-> "Users API", description |-> "Manage users"],
     paths |-> << <<"/users/{id}", << <<"get", [summary |-> "Get user"]>> >> >>,
                  <<"/orders", << <<"post", [description |-> "Create order"]>> >> >> >>,
     components |-> [schemas |-> << <<"User", [type |-> "object"]>>, <<"Order", [type |-> "object"]>> >>]]

AccountsSpec ==
    [openapi |-> "3.0.0",
     info  |-> [title |-> "Accounts API"],
     paths |-> << <<"/user/{userId}",
                    << <<"parameters", [description |-> "shared"]>>,
                       <<"get", [summary |-> "Read account", description |-> ""]>> >> >>,
                  <<"/orders", <<>> >> >>,
     components |-> [schemas |-> << <<"User", [type |-> "object"]>> >>]]

BillingSpec ==
    [openapi |-> "3.0.0",
     info  |-> [title |-> "Billing API", description |-> "Invoices"],
     paths |-> << <<"/invoices", << <<"get", [summary |-> "List invoices"]>> >> >> >>,
     components |-> [schemas |-> << <<"Invoice", [type |-> "object"]>> >>]]

SearchSpec ==
    [openapi |-> "3.0.0",
     info  |-> [title |-> "Search API"],
     paths |-> << <<"/search", <<>> >>, <<"/invoices/{id}", <<>> >> >>]

(***************************************************************************)
(* The vectors the embedding service returns: one per text, the same on    *)
(* every request for that text.                                            *)
(***************************************************************************)
UsersText == "Users API Manage users /users/{id} Get user /orders Create order"
AccountsText == "Accounts API /user/{userId} Read account /orders"
BillingText == "Billing API Invoices /invoices List invoices"
SearchText == "Search API /search /invoices/{id}"

ClientNz(text) ==
    IF text = UsersText THEN <<4, 3>>
    ELSE IF text = AccountsText THEN <<2, 3, 1, 1, 1>>
    ELSE IF text = BillingText THEN <<1, 1, 1, 1>>
    ELSE IF text = SearchText THEN <<0, 1, 1, 1>>
    ELSE <<1>>

\* client.embeddings.create(model, input).data[0].embedding
ClientEmbedding(model, text) == Vec(ModelDim(model), ClientNz(text))

\* _generate_embedding: the client's vector, or zeros when the client raises
GenerateEmbedding(self, text) ==
    IF text \in failing THEN Zeros(ZeroDim)
    ELSE ClientEmbedding(self.embedding_model, text)

\* raised by np.dot on 1-D arrays of different sizes
ValueError == [error |-> "ValueError"]

IsError(r) == "error" \in DOMAIN r

\* variant: no test for a zero norm, the division by zero is made
CosineSimilarityNoZeroTest(vec1, vec2) ==
    IF vec1.dim # vec2.dim THEN ValueError
    ELSE IF NormSq(vec1) = 0 \/ NormSq(vec2) = 0 THEN [error |-> "nan"]
    ELSE Sim(Dot(vec1, vec2), NormSq(vec1) * NormSq(vec2))

\* variant: vectors of different sizes score 0.0 instead of raising
CosineSimilarityNoRaise(vec1, vec2) ==
    IF vec1.dim # vec2.dim THEN Sim(0, 1)
    ELSE IF NormSq(vec1) = 0 \/ NormSq(vec2) = 0 THEN Sim(0, 1)
    ELSE Sim(Dot(vec1, vec2), NormSq(vec1) * NormSq(vec2))

\* _cosine_similarity
CosineSimilarity(vec1, vec2) ==
    IF vec1.dim # vec2.dim THEN ValueError
    ELSE IF NormSq(vec1) = 0 \/ NormSq(vec2) = 0 THEN Sim(0, 1)
    ELSE Sim(Dot(vec1, vec2), NormSq(vec1) * NormSq(vec2))

\* variant: containment is tested in one direction only
PathsSimilarOneWay(path1, path2) ==
    LET p1_clean == Replace(Replace(Replace(Replace(path1, "{"), "}"), "id"), "_")
        p2_clean == Replace(Replace(Replace(Replace(path2, "{"), "}"), "id"), "_")
    IN  Contains(Lower(p2_clean), Lower(p1_clean))

\* _paths_similar
PathsSimilar(path1, path2) ==
    LET p1_clean == Replace(Replace(Replace(Replace(path1, "{"), "}"), "id"), "_")
        p2_clean == Replace(Replace(Replace(Replace(path2, "{"), "}"), "id"), "_")
        p1_lower == Lower(p1_clean)
        p2_lower == Lower(p2_clean)
    IN  Contains(p2_lower, p1_lower) \/ Contains(p1_lower, p2_lower)

\* _paths_similar on the paths of the pool, evaluated once
AllSpecs == {UsersSpec, AccountsSpec, BillingSpec, SearchSpec}

\* paths the helpers are applied to on their own
ProbePaths ==
    {"/users/{id}", "/user/{userId}", "/orders", "/a", "/ab", "/abc",
     "/user_id", "/USERS/ID"}

PoolPaths == UNION {Keys(sp.paths) : sp \in AllSpecs} \cup ProbePaths

RECURSIVE RowOf(_, _)
RowOf(p, qs) ==
    IF qs = {} THEN <<>>
    ELSE LET q == CHOOSE x \in qs : TRUE
         IN  (<<p, q>> :> PathsSimilar(p, q)) @@ RowOf(p, qs \ {q})

RECURSIVE TableOf(_)
TableOf(ps) ==
    IF ps = {} THEN <<>>
    ELSE LET p == CHOOSE x \in ps : TRUE
         IN  RowOf(p, PoolPaths) @@ TableOf(ps \ {p})

SimilarTable == TableOf(PoolPaths)

\* variant: the break leaves the loop after the first p2, similar or not
InnerLoopBreakFirst(p1, order2, paths2, j) ==
    IF j > Len(order2) THEN 0
    ELSE IF SimilarTable[<<p1, order2[j]>>] /\ p1 \notin paths2 THEN 1
    ELSE 0

RECURSIVE InnerLoopNoExactGuard(_, _, _, _)
\* variant: a path that is also in paths2 is counted as a fuzzy match too
InnerLoopNoExactGuard(p1, order2, paths2, j) ==
    IF j > Len(order2) THEN 0
    ELSE IF SimilarTable[<<p1, order2[j]>>] THEN 1
    ELSE InnerLoopNoExactGuard(p1, order2, paths2, j + 1)

RECURSIVE InnerLoop(_, _, _, _)
\* for p2 in paths2: if similar and p1 not in paths2: count one and break
InnerLoop(p1, order2, paths2, j) ==
    IF j > Len(order2) THEN 0
    ELSE IF SimilarTable[<<p1, order2[j]>>] /\ p1 \notin paths2 THEN 1
    ELSE InnerLoop(p1, order2, paths2, j + 1)

RECURSIVE OuterLoopFirstMatch(_, _, _, _)
\* variant: the break leaves both loops, at most one fuzzy match is counted
OuterLoopFirstMatch(order1, order2, paths2, i) ==
    IF i > Len(order1) THEN 0
    ELSE IF InnerLoop(order1[i], order2, paths2, 1) = 1 THEN 1
    ELSE OuterLoopFirstMatch(order1, order2, paths2, i + 1)

RECURSIVE OuterLoop(_, _, _, _)
\* for p1 in paths1
OuterLoop(order1, order2, paths2, i) ==
    IF i > Len(order1) THEN 0
    ELSE InnerLoop(order1[i], order2, paths2, 1)
         + OuterLoop(order1, order2, paths2, i + 1)

\* the orders in which a set may be iterated
Orders(S) ==
    {f \in [1..Cardinality(S) -> S] : \A i, j \in DOMAIN f : f[i] = f[j] => i = j}

PathSet(sp) == Keys(Get(sp, "paths", <<>>))

\* variant: the exact matches are left out of the sum
CountFuzzyOnly(spec1, spec2, order1, order2) ==
    OuterLoop(order1, order2, PathSet(spec2), 1)

\* _count_overlapping_endpoints, the two sets iterated in the given orders
CountOverlappingEndpoints(spec1, spec2, order1, order2) ==
    LET paths1 == PathSet(spec1)
        paths2 == PathSet(spec2)
        exact_matches == Cardinality(paths1 \cap paths2)
    IN  exact_matches + OuterLoop(order1, order2, paths2, 1)

GenerateRecommendationSwapped(overlap, api1_name, api2_name) ==
    IF overlap >= 85
    THEN "High overlap detected. Consider deprecating " \o Str(api1_name)
         \o " and migrating consumers to " \o Str(api2_name)
    ELSE IF overlap >= 70
    THEN "Moderate overlap. Consider consolidating overlapping functionality"
    ELSE "Some similarity detected. Review for potential alignment"

\* _generate_recommendation
GenerateRecommendation(overlap, api1_name, api2_name) ==
    IF overlap >= 85
    THEN "High overlap detected. Consider deprecating " \o Str(api2_name)
         \o " and migrating consumers to " \o Str(api1_name)
    ELSE IF overlap >= 70
    THEN "Moderate overlap. Consider consolidating overlapping functionality"
    ELSE "Some similarity detected. Review for potential alignment"

SchemaSet(sp) ==
    Keys(Get(Get(sp, "components", [none |-> TRUE]), "schemas", <<>>))

\* variant: the schemas fact is put before the endpoints fact
GetOverlapDetailsSchemasFirst(spec1, spec2) ==
    LET common_paths   == PathSet(spec1) \cap PathSet(spec2)
        common_schemas == SchemaSet(spec1) \cap SchemaSet(spec2)
        d1 == IF common_paths # {}
              THEN <<"Both expose " \o ToString(Cardinality(common_paths))
                     \o " identical endpoints">>
              ELSE <<>>
        d2 == IF common_schemas # {}
              THEN <<"Share " \o ToString(Cardinality(common_schemas))
                     \o " common data models">>
              ELSE <<>>
        details == d2 \o d1
    IN  IF details # <<>> THEN details ELSE <<"Similar API functionality">>

\* _get_overlap_details
GetOverlapDetails(spec1, spec2) ==
    LET common_paths   == PathSet(spec1) \cap PathSet(spec2)
        common_schemas == SchemaSet(spec1) \cap SchemaSet(spec2)
        d1 == IF common_paths # {}
              THEN <<"Both expose " \o ToString(Cardinality(common_paths))
                     \o " identical endpoints">>
              ELSE <<>>
        d2 == IF common_schemas # {}
              THEN <<"Share " \o ToString(Cardinality(common_schemas))
                     \o " common data models">>
              ELSE <<>>
        details == d1 \o d2
    IN  IF details # <<>> THEN details ELSE <<"Similar API functionality">>

RECURSIVE InsertTiesFirst(_, _, _)
\* variant: x is placed before the elements of equal overlap
InsertTiesFirst(sorted, x, k) ==
    IF k > Len(sorted) THEN Append(sorted, x)
    ELSE IF sorted[k].overlap <= x.overlap
         THEN SubSeq(sorted, 1, k - 1) \o <<x>> \o SubSeq(sorted, k, Len(sorted))
         ELSE InsertTiesFirst(sorted, x, k + 1)

RECURSIVE InsertByOverlap(_, _, _)
\* x is placed after every element whose overlap is at least its own
InsertByOverlap(sorted, x, k) ==
    IF k > Len(sorted) THEN Append(sorted, x)
    ELSE IF sorted[k].overlap < x.overlap
         THEN SubSeq(sorted, 1, k - 1) \o <<x>> \o SubSeq(sorted, k, Len(sorted))
         ELSE InsertByOverlap(sorted, x, k + 1)

RECURSIVE SortByOverlap(_, _)
\* duplicates.sort(key=lambda x: x['overlap'], reverse=True), on the first n
SortByOverlap(seq, n) ==
    IF n = 0 THEN <<>>
    ELSE InsertByOverlap(SortByOverlap(seq, n - 1), seq[n], 1)

\* line 19: the embedding of the current spec is always requested
CurrentRequests(sp) == <<[for |-> 0, text |-> SummarizeApi(sp)]>>

\* variant: the cache is ignored, every record is embedded again
EmbedRequestsAlways(i, existing_api) ==
    <<[for |-> i, text |-> SummarizeApi(existing_api.spec)]>>

\* lines 29-33: the client is asked only for a record without cached embedding
EmbedRequests(i, existing_api) ==
    IF "embedding" \in DOMAIN existing_api
    THEN <<>>
    ELSE <<[for |-> i, text |-> SummarizeApi(existing_api.spec)]>>

\* existing_api['embedding'] when cached, else the embedding of its summary
ExistingEmbedding(self, existing_api) ==
    IF "embedding" \in DOMAIN existing_api
    THEN existing_api.embedding
    ELSE GenerateEmbedding(self, SummarizeApi(existing_api.spec))

\* variant: the record is recognised by its spec instead of its name
IsSameSpec(sp, existing_api) == existing_api.spec = sp

\* if existing_api.get('name') == spec.get('info', {}).get('title'): continue
IsSameApi(sp, existing_api) == Get(existing_api, "name", None) = TitleOf(sp)

\* overlap_percentage = int(similarity * 100)
OverlapPercentage(similarity) == IntPct(similarity)

\* variant: every similarity from 0 up passes
AboveThresholdAny(self, similarity) == SimGE(similarity, 0)

\* variant: strictly above the threshold
AboveThresholdStrict(self, similarity) == SimGT(similarity, self.threshold)

\* similarity >= self.threshold
AboveThreshold(self, similarity) == SimGE(similarity, self.threshold)

\* the dict appended to duplicates
Finding(sp, existing_api, similarity, order1, order2) ==
    LET overlap_percentage == OverlapPercentage(similarity)
    IN  [name           |-> existing_api.name,
         api_id         |-> existing_api.id,
         overlap        |-> overlap_percentage,
         endpoints      |-> CountOverlappingEndpoints(sp, existing_api.spec,
                                                      order1, order2),
         recommendation |-> GenerateRecommendation(overlap_percentage,
                                                   TitleOf(sp), existing_api.name),
         details        |-> GetOverlapDetails(sp, existing_api.spec)]

\* variant: the computed embedding is cached in the record
RecordsWithCache(apis, i, embedding) ==
    [apis EXCEPT ![i] = [k \in DOMAIN apis[i] \cup {"embedding"} |->
                            IF k = "embedding" THEN embedding ELSE apis[i][k]]]

\* the records after one loop iteration: the loop only reads them
RecordsAfterIteration(apis, i, embedding) == apis

SpecPool == {UsersSpec, AccountsSpec, BillingSpec}

Texts == {UsersText, AccountsText, BillingText, SearchText}

RecordPool ==
    { [id |-> "a1", name |-> "Users API", spec |-> UsersSpec],
      [id |-> "a2", name |-> "Accounts API", spec |-> AccountsSpec],
      [id |-> "a3", name |-> "Billing API", spec |-> BillingSpec],
      [id |-> "a4", name |-> "Accounts v2", spec |-> AccountsSpec,
       embedding |-> Vec(1536, <<2, 3, 1, 1, 1>>)],
      [id |-> "a5", name |-> "Legacy Users", spec |-> UsersSpec,
       embedding |-> Vec(3072, <<4, 3>>)],
      [id |-> "a6", name |-> "Users API", spec |-> BillingSpec,
       embedding |-> Vec(1536, <<4, 3>>)],
      [id |-> "a7", name |-> "Search API", spec |-> SearchSpec] }

\* sequences of distinct records, at most MaxRecords long
RecordLists ==
    UNION {{f \in [1..n -> RecordPool] : \A i, j \in 1..n : f[i] = f[j] => i = j}
           : n \in 0..MaxRecords}

SettingsPool ==
    [DUPLICATE_THRESHOLD : {70, 90}, EMBEDDING_MODEL : EmbeddingModels]

NoVec == Vec(0, <<>>)

NoProbe == [fn |-> "none"]

\* no request handled yet
NoResponse == [status |-> "none"]

\* analysis.py line 29 and DocScoreEngine.__init__: nothing stored yet
AppInit ==
    /\ api_database = <<>>
    /\ history_store = <<>>
    /\ response = NoResponse
    /\ request = [handler |-> "none"]
    /\ improved_files = {}
    /\ served = 0

(***************************************************************************)
(* find_duplicates, one step per loop iteration.                           *)
(***************************************************************************)
Init ==
    /\ settings \in SettingsPool
    /\ detector = BuildDetector(settings)
    /\ failing \in {{}} \cup {{t} : t \in Texts}
    /\ spec \in SpecPool
    /\ existing_apis \in RecordLists
    /\ pc = "start"
    /\ idx = 0
    /\ current_embedding = NoVec
    /\ duplicates = <<>>
    /\ calls = 0
    /\ prev = <<>>
    /\ requests = <<>>
    /\ probe = NoProbe
    /\ AppInit

\* lines 18-21: summarize and embed the current spec
Begin ==
    /\ pc = "start"
    /\ current_embedding' = GenerateEmbedding(detector, SummarizeApi(spec))
    /\ duplicates' = <<>>
    /\ idx' = 1
    /\ pc' = "loop"
    /\ calls' = calls + 1
    /\ requests' = CurrentRequests(spec)
    /\ UNCHANGED <<settings, detector, failing, spec, existing_apis, prev, probe>>
    /\ UNCHANGED app

\* lines 23-26: a record with the current title is skipped
SkipSameApi ==
    /\ pc = "loop"
    /\ idx <= Len(existing_apis)
    /\ IsSameApi(spec, existing_apis[idx])
    /\ idx' = idx + 1
    /\ UNCHANGED <<settings, detector, failing, spec, existing_apis, pc,
                   current_embedding, duplicates, calls, prev, requests, probe>>
    /\ UNCHANGED app

\* lines 28-36: np.dot raises, the exception leaves find_duplicates
RaiseValueError ==
    /\ pc = "loop"
    /\ idx <= Len(existing_apis)
    /\ ~IsSameApi(spec, existing_apis[idx])
    /\ LET existing_embedding == ExistingEmbedding(detector, existing_apis[idx])
       IN  /\ IsError(CosineSimilarity(current_embedding, existing_embedding))
           /\ existing_apis' =
                  RecordsAfterIteration(existing_apis, idx, existing_embedding)
    /\ requests' = requests \o EmbedRequests(idx, existing_apis[idx])
    /\ pc' = "failed"
    /\ UNCHANGED <<settings, detector, failing, spec, idx,
                   current_embedding, duplicates, calls, prev, probe>>
    /\ UNCHANGED app

\* lines 28-55: score one record, append a finding at or above the threshold
ScoreRecord ==
    /\ pc = "loop"
    /\ idx <= Len(existing_apis)
    /\ ~IsSameApi(spec, existing_apis[idx])
    /\ LET existing_api       == existing_apis[idx]
           existing_embedding == ExistingEmbedding(detector, existing_api)
           similarity == CosineSimilarity(current_embedding, existing_embedding)
       IN  /\ ~IsError(similarity)
           /\ IF AboveThreshold(detector, similarity)
              THEN \E order1 \in Orders(PathSet(spec)),
                      order2 \in Orders(PathSet(existing_api.spec)) :
                       duplicates' = Append(duplicates,
                           Finding(spec, existing_api, similarity, order1, order2))
              ELSE duplicates' = duplicates
           /\ existing_apis' =
                  RecordsAfterIteration(existing_apis, idx, existing_embedding)
    /\ requests' = requests \o EmbedRequests(idx, existing_apis[idx])
    /\ idx' = idx + 1
    /\ UNCHANGED <<settings, detector, failing, spec, pc,
                   current_embedding, calls, prev, probe>>
    /\ UNCHANGED app

\* lines 57-60: sort and return
Return ==
    /\ pc = "loop"
    /\ idx > Len(existing_apis)
    /\ duplicates' = SortByOverlap(duplicates, Len(duplicates))
    /\ pc' = "done"
    /\ UNCHANGED <<settings, detector, failing, spec, existing_apis, idx,
                   current_embedding, calls, prev, requests, probe>>
    /\ UNCHANGED app

\* what the caller of find_duplicates receives
Outcome ==
    IF pc = "done" THEN [status |-> "returned", value |-> duplicates]
    ELSE [status |-> "raised", value |-> <<>>]

\* the caller calls find_duplicates again with the same arguments
CallAgain ==
    /\ pc \in {"done", "failed"}
    /\ calls < MaxCalls
    /\ prev' = Append(prev, Outcome)
    /\ pc' = "start"
    /\ idx' = 0
    /\ current_embedding' = NoVec
    /\ duplicates' = <<>>
    /\ requests' = <<>>
    /\ UNCHANGED <<settings, detector, failing, spec, existing_apis, calls, probe>>
    /\ UNCHANGED app

Next ==
    \/ Begin
    \/ SkipSameApi
    \/ RaiseValueError
    \/ ScoreRecord
    \/ Return
    \/ CallAgain

Spec == Init /\ [][Next]_vars

(***************************************************************************)
(* The helpers applied on their own, once, on inputs drawn from the pools.  *)
(***************************************************************************)
DefaultSettings ==
    [DUPLICATE_THRESHOLD |-> 70, EMBEDDING_MODEL |-> "text-embedding-3-small"]

InitFn ==
    /\ settings = DefaultSettings
    /\ detector = BuildDetector(settings)
    /\ failing = {}
    /\ spec \in SpecPool
    /\ existing_apis = <<>>
    /\ pc = "helper"
    /\ idx = 0
    /\ current_embedding = NoVec
    /\ duplicates = <<>>
    /\ calls = 0
    /\ prev = <<>>
    /\ requests = <<>>
    /\ probe = NoProbe
    /\ AppInit

PoolNames == {r.name : r \in RecordPool}

\* _generate_recommendation(overlap, api1_name, api2_name)
ProbeRecommendation ==
    /\ pc = "helper"
    /\ probe = NoProbe
    /\ \E overlap \in 0..100, api1_name \in PoolNames, api2_name \in PoolNames :
           probe' = [fn        |-> "recommendation",
                     overlap   |-> overlap,
                     api1_name |-> api1_name,
                     api2_name |-> api2_name,
                     out       |-> GenerateRecommendation(overlap, api1_name, api2_name)]
    /\ UNCHANGED <<settings, detector, failing, spec, existing_apis, pc, idx,
                   current_embedding, duplicates, calls, prev, requests>>
    /\ UNCHANGED app

\* lines 28-55 for one record: the finding of a record at or above the threshold
ProbeFinding ==
    /\ pc = "helper"
    /\ probe = NoProbe
    /\ \E existing_api \in RecordPool :
         LET similarity ==
                 CosineSimilarity(GenerateEmbedding(detector, SummarizeApi(spec)),
                                  ExistingEmbedding(detector, existing_api))
         IN  /\ ~IsSameApi(spec, existing_api)
             /\ ~IsError(similarity)
             /\ AboveThreshold(detector, similarity)
             /\ \E order1 \in Orders(PathSet(spec)),
                   order2 \in Orders(PathSet(existing_api.spec)) :
                    probe' = [fn           |-> "finding",
                              existing_api |-> existing_api,
                              similarity   |-> similarity,
                              out          |-> Finding(spec, existing_api, similarity,
                                                       order1, order2)]
    /\ UNCHANGED <<settings, detector, failing, spec, existing_apis, pc, idx,
                   current_embedding, duplicates, calls, prev, requests>>
    /\ UNCHANGED app

\* the sets of paths a spec of the helper calls may have
PathSets == {S \in SUBSET ProbePaths : Cardinality(S) <= MaxPaths}

\* a spec whose paths object has the given keys, in the given order
PathsSpec(order) == [paths |-> [i \in 1..Len(order) |-> <<order[i], <<>>>>]]

\* _count_overlapping_endpoints(spec1, spec2) and the call with the
\* arguments exchanged
ProbeCountOverlappingEndpoints ==
    /\ pc = "helper"
    /\ probe = NoProbe
    /\ \E A \in PathSets, B \in PathSets :
         \E order1 \in Orders(A), order2 \in Orders(B) :
            probe' = [fn  |-> "count",
                      A   |-> A,
                      B   |-> B,
                      out |-> CountOverlappingEndpoints(PathsSpec(order1),
                                  PathsSpec(order2), order1, order2),
                      swapped |-> CountOverlappingEndpoints(PathsSpec(order2),
                                  PathsSpec(order1), order2, order1)]
    /\ UNCHANGED <<settings, detector, failing, spec, existing_apis, pc, idx,
                   current_embedding, duplicates, calls, prev, requests>>
    /\ UNCHANGED app

\* _paths_similar(path1, path2)
ProbePathsSimilar ==
    /\ pc = "helper"
    /\ probe = NoProbe
    /\ \E path1 \in ProbePaths, path2 \in ProbePaths :
           probe' = [fn      |-> "similar",
                     path1   |-> path1,
                     path2   |-> path2,
                     out     |-> PathsSimilar(path1, path2),
                     swapped |-> PathsSimilar(path2, path1)]
    /\ UNCHANGED <<settings, detector, failing, spec, existing_apis, pc, idx,
                   current_embedding, duplicates, calls, prev, requests>>
    /\ UNCHANGED app

\* a spec with one shared path, and a schema of another spec
OrdersSpec ==
    [openapi    |-> "3.0.0",
     paths      |-> <<<<"/orders", <<<<"trace", [summary |-> "Trace order"]>>>>>>>>,
     components |-> [schemas |-> <<<<"Invoice", <<>>>>>>]]

\* a spec with nothing but the version
BareSpec == [openapi |-> "3.0.0"]

HelperSpecs == AllSpecs \cup {OrdersSpec, BareSpec}

\* _get_overlap_details(spec1, spec2)
ProbeGetOverlapDetails ==
    /\ pc = "helper"
    /\ probe = NoProbe
    /\ \E spec1 \in HelperSpecs, spec2 \in HelperSpecs :
           probe' = [fn    |-> "details",
                     spec1 |-> spec1,
                     spec2 |-> spec2,
                     out   |-> GetOverlapDetails(spec1, spec2)]
    /\ UNCHANGED <<settings, detector, failing, spec, existing_apis, pc, idx,
                   current_embedding, duplicates, calls, prev, requests>>
    /\ UNCHANGED app

VectorPool ==
    {Zeros(1536), Zeros(3072), Vec(1536, <<0, 0>>), Vec(1536, <<4, 3>>),
     Vec(1536, <<0, 0, 1>>), Vec(1536, <<1, 1, 1, 1>>), Vec(3072, <<4, 3>>)}

\* _cosine_similarity(vec1, vec2)
ProbeCosineSimilarity ==
    /\ pc = "helper"
    /\ probe = NoProbe
    /\ \E vec1 \in VectorPool, vec2 \in VectorPool :
           probe' = [fn   |-> "cosine",
                     vec1 |-> vec1,
                     vec2 |-> vec2,
                     out  |-> CosineSimilarity(vec1, vec2)]
    /\ UNCHANGED <<settings, detector, failing, spec, existing_apis, pc, idx,
                   current_embedding, duplicates, calls, prev, requests>>
    /\ UNCHANGED app

\* _summarize_api(spec)
ProbeSummarizeApi ==
    /\ pc = "helper"
    /\ probe = NoProbe
    /\ \E sp \in HelperSpecs :
           probe' = [fn   |-> "summary",
                     spec |-> sp,
                     out  |-> SummarizeApi(sp)]
    /\ UNCHANGED <<settings, detector, failing, spec, existing_apis, pc, idx,
                   current_embedding, duplicates, calls, prev, requests>>
    /\ UNCHANGED app

NextFn ==
    \/ ProbeRecommendation
    \/ ProbeFinding
    \/ ProbeCountOverlappingEndpoints
    \/ ProbePathsSimilar
    \/ ProbeGetOverlapDetails
    \/ ProbeCosineSimilarity
    \/ ProbeSummarizeApi

SpecFn == InitFn /\ [][NextFn]_vars

(***************************************************************************)
(* The routers: analysis.py over api_database.                             *)
(*  - api_database: a dict keyed by api_id whose values hold their key as  *)
(*    "id"; it is the sequence of its values in insertion order.           *)
(*  - a record keeps id, name, owner, spec, improvements and duplicates;   *)
(*    doc_score, compliance_issues and updated_at are results of the other *)
(*    services that the handlers below only store.                         *)
(*  - str(uuid.uuid4()) is a value never issued before.                    *)
(***************************************************************************)
MaxRequests == 2

\* OpenAPIParser.validate
Validate(sp) == \A field \in {"openapi", "info", "paths"} : field \in DOMAIN sp

\* a or b
Or(a, b) == IF a \in {None, ""} THEN b ELSE a

\* the parsed documents a client sends
AppDocs == {UsersSpec, AccountsSpec, BareSpec}

\* the names a client sends
AppNames == {"Users API", "Inventory"}

AppOwners == {None, "platform"}

\* the orders in which the sets of paths are iterated in one call
AppPathSets == {PathSet(sp) : sp \in AppDocs}

OrderPicks ==
    {f \in [AppPathSets -> UNION {Orders(S) : S \in AppPathSets}] :
        \A S \in AppPathSets : f[S] \in Orders(S)}

RECURSIVE ScanRecords(_, _, _, _, _)
\* the loop of find_duplicates from record i on: raised, or the findings
ScanRecords(self, sp, apis, pick, i) ==
    IF i > Len(apis) THEN [raised |-> FALSE, duplicates |-> <<>>]
    ELSE IF IsSameApi(sp, apis[i]) THEN ScanRecords(self, sp, apis, pick, i + 1)
    ELSE LET similarity ==
                 CosineSimilarity(GenerateEmbedding(self, SummarizeApi(sp)),
                                  ExistingEmbedding(self, apis[i]))
         IN  IF IsError(similarity) THEN [raised |-> TRUE, duplicates |-> <<>>]
             ELSE LET rest == ScanRecords(self, sp, apis, pick, i + 1)
                      here ==
                          IF AboveThreshold(self, similarity)
                          THEN <<Finding(sp, apis[i], similarity,
                                         pick[PathSet(sp)],
                                         pick[PathSet(apis[i].spec)])>>
                          ELSE <<>>
                  IN  IF rest.raised THEN rest
                      ELSE [raised |-> FALSE, duplicates |-> here \o rest.duplicates]

\* find_duplicates as one call: raised, or the sorted findings
FindDuplicates(self, sp, apis, pick) ==
    LET scanned == ScanRecords(self, sp, apis, pick, 1)
    IN  IF scanned.raised THEN scanned
        ELSE [raised     |-> FALSE,
              duplicates |-> SortByOverlap(scanned.duplicates,
                                           Len(scanned.duplicates))]

\* the None that stands where a record may stand
NoRecord == [none |-> TRUE]

\* next((v for v in api_database.values() if v["name"] == api_name), None)
ExistingByName(db, api_name) ==
    IF \E i \in 1..Len(db) : db[i].name = api_name
    THEN db[CHOOSE i \in 1..Len(db) :
                /\ db[i].name = api_name
                /\ \A j \in 1..(i - 1) : db[j].name # api_name]
    ELSE NoRecord

\* str(uuid.uuid4())
NewUuid == "uuid-" \o ToString(served + 1)

\* api_database[api_id] = record
Store(db, record) ==
    IF \E i \in 1..Len(db) : db[i].id = record.id
    THEN [i \in 1..Len(db) |-> IF db[i].id = record.id THEN record ELSE db[i]]
    ELSE Append(db, record)

\* DocScoreEngine.calculate: one more entry in the history of api_id
Calculate(store, api_id) ==
    IF \E i \in 1..Len(store) : store[i][1] = api_id
    THEN [i \in 1..Len(store) |->
             IF store[i][1] = api_id THEN <<api_id, store[i][2] + 1>> ELSE store[i]]
    ELSE Append(store, <<api_id, 1>>)

\* the upper-case letter of every lower-case letter
UpperMap ==
    [c \in {SubSeq(LowerChars, i, i) : i \in 1..Len(LowerChars)} |->
        LET i == CHOOSE j \in 1..Len(LowerChars) : SubSeq(LowerChars, j, j) = c
        IN  SubSeq(UpperChars, i, i)]

RECURSIVE Upper(_)
\* s.upper()
Upper(s) ==
    IF Len(s) = 0 THEN s
    ELSE (IF SubSeq(s, 1, 1) \in DOMAIN UpperMap THEN UpperMap[SubSeq(s, 1, 1)]
          ELSE SubSeq(s, 1, 1)) \o Upper(SubSeq(s, 2, Len(s)))

RECURSIVE ReplaceWith(_, _, _)
\* s.replace(old, new), for old of one character
ReplaceWith(s, old, new) ==
    IF Len(s) = 0 THEN s
    ELSE (IF SubSeq(s, 1, 1) = old THEN new ELSE SubSeq(s, 1, 1))
         \o ReplaceWith(SubSeq(s, 2, Len(s)), old, new)

\* s.split(" ", 1)
SplitFirst(s) ==
    IF \E i \in 1..Len(s) : SubSeq(s, i, i) = " "
    THEN LET i == CHOOSE j \in 1..Len(s) :
                      /\ SubSeq(s, j, j) = " "
                      /\ \A k \in 1..(j - 1) : SubSeq(s, k, k) # " "
         IN  <<SubSeq(s, 1, i - 1), SubSeq(s, i + 1, Len(s))>>
    ELSE <<s>>

(***************************************************************************)
(* AIImprover.  The chat client is outside the repository: when it answers *)
(* it returns ChatDescription for a description and the JSON text of       *)
(* ChatExample for an example; when it is down every call raises.          *)
(***************************************************************************)
ChatStates == {"up", "down"}

ChatDescription == "Creates or reads the resource and reports its state."

ChatExample == [name |-> "example"]

ChatExampleText == "{\n  \"name\": \"example\"\n}"

\* json.dumps(example, indent=2)
Dumps(example) == IF example = ChatExample THEN ChatExampleText ELSE "null"

\* json.loads(text)
Loads(text) == IF text = ChatExampleText THEN ChatExample ELSE [none |-> TRUE]

\* AIImprover._is_vague
IsVague(description) ==
    \E term \in {"gets", "returns", "data", "info", "stuff", "fetches"} :
        Contains(Lower(description), term)

\* AIImprover._has_examples: an example in the request body or in a response
HasExamples(endpoint) ==
    \/ \E i \in 1..Len(Get(Get(endpoint, "requestBody", [none |-> TRUE]),
                           "content", <<>>)) :
          LET details == endpoint.requestBody.content[i][2]
          IN  "example" \in DOMAIN details \/ "examples" \in DOMAIN details
    \/ \E r \in 1..Len(Get(endpoint, "responses", <<>>)) :
          \E i \in 1..Len(Get(endpoint.responses[r][2], "content", <<>>)) :
             LET details == endpoint.responses[r][2].content[i][2]
             IN  "example" \in DOMAIN details \/ "examples" \in DOMAIN details

\* AIImprover._get_reason
GetReason(description) ==
    IF description = "" THEN "Missing description - endpoint purpose unclear."
    ELSE IF Len(description) < 20 THEN "Description too brief and lacks details."
    ELSE "Description uses vague language - needs more specificity."

\* _improve_description: the stripped answer, or None
ImproveDescription(chat) == IF chat = "up" THEN ChatDescription ELSE None

\* _generate_example: the parsed answer, or None
GenerateExample(chat) == IF chat = "up" THEN ChatExample ELSE None

\* the improvements of one endpoint, before their ids are assigned
EndpointImprovements(method, path, endpoint, chat) ==
    LET description == Get(endpoint, "description", "")
        improved    == ImproveDescription(chat)
        example     == IF chat = "up" THEN Dumps(GenerateExample(chat)) ELSE None
    IN  (IF (description = "" \/ Len(description) < 20 \/ IsVague(description))
            /\ improved # None
         THEN <<[endpoint |-> Upper(method) \o " " \o path,
                 field    |-> "description",
                 before   |-> Or(description, "No description provided"),
                 after    |-> improved,
                 reason   |-> GetReason(description),
                 priority |-> IF description = "" THEN "high" ELSE "medium"]>>
         ELSE <<>>)
        \o
        (IF ~HasExamples(endpoint) /\ example # None
         THEN <<[endpoint |-> Upper(method) \o " " \o path,
                 field    |-> "example",
                 before   |-> "No example provided",
                 after    |-> example,
                 reason   |-> "Missing request/response example",
                 priority |-> "high"]>>
         ELSE <<>>)

RECURSIVE MethodImprovements(_, _, _, _)
\* the inner loop of generate_improvements over methods.items()
MethodImprovements(path, methods, chat, k) ==
    IF k > Len(methods) THEN <<>>
    ELSE (IF methods[k][1] \in HttpVerbs
          THEN EndpointImprovements(methods[k][1], path, methods[k][2], chat)
          ELSE <<>>) \o MethodImprovements(path, methods, chat, k + 1)

RECURSIVE PathImprovements(_, _, _)
\* the outer loop of generate_improvements over paths.items()
PathImprovements(paths, chat, k) ==
    IF k > Len(paths) THEN <<>>
    ELSE MethodImprovements(paths[k][1], paths[k][2], chat, 1)
         \o PathImprovements(paths, chat, k + 1)

\* generate_improvements: the ids count the improvements from 1
GenerateImprovements(sp, chat) ==
    LET found == PathImprovements(Get(sp, "paths", <<>>), chat, 1)
    IN  [i \in 1..Len(found) |->
            [k \in DOMAIN found[i] \cup {"id"} |->
                IF k = "id" THEN i ELSE found[i][k]]]

\* the handler from its scoring on, common to the two analyze handlers
AnalyzeAs(sp, api_id, api_name, owner, chat, pick) ==
    LET found == FindDuplicates(detector, sp, api_database, pick)
    IN  /\ history_store' = Calculate(history_store, api_id)
        /\ IF found.raised
           THEN /\ response' = [status |-> 500]
                /\ UNCHANGED api_database
           ELSE /\ response' = [status |-> 200]
                /\ api_database' =
                       Store(api_database,
                             [id           |-> api_id,
                              name         |-> api_name,
                              owner        |-> owner,
                              spec         |-> sp,
                              improvements |-> GenerateImprovements(sp, chat),
                              duplicates   |-> found.duplicates])

\* POST /analyze
analyze_api ==
    /\ pc = "app"
    /\ served < MaxRequests
    /\ served' = served + 1
    /\ UNCHANGED improved_files
    /\ \E sp \in AppDocs, given_name \in AppNames \cup {None},
          owner \in AppOwners, chat \in ChatStates, pick \in OrderPicks :
          /\ request' = [handler |-> "analyze_api", spec |-> sp]
          /\ IF ~Validate(sp)
             THEN \* the 400 is raised inside the try and caught by its except
                  /\ response' = [status |-> 500]
                  /\ UNCHANGED <<api_database, history_store>>
             ELSE LET api_name     == Or(given_name,
                                         Get(Get(sp, "info", [none |-> TRUE]),
                                             "title", "Unnamed API"))
                      existing_api == ExistingByName(api_database, api_name)
                      api_id       == IF existing_api # NoRecord THEN existing_api.id
                                      ELSE NewUuid
                  IN  AnalyzeAs(sp, api_id, api_name, Or(owner, "Unknown"),
                                chat, pick)
    /\ UNCHANGED <<settings, detector, failing, spec, existing_apis, pc, idx,
                   current_embedding, duplicates, calls, prev, requests, probe>>

\* POST /analyze/text
analyze_text ==
    /\ pc = "app"
    /\ served < MaxRequests
    /\ served' = served + 1
    /\ UNCHANGED improved_files
    /\ \E sp \in AppDocs, api_name \in AppNames, chat \in ChatStates,
          pick \in OrderPicks :
          /\ request' = [handler |-> "analyze_text", spec |-> sp]
          /\ IF ~Validate(sp)
             THEN \* the 400 is raised inside the try and caught by its except
                  /\ response' = [status |-> 500]
                  /\ UNCHANGED <<api_database, history_store>>
             ELSE AnalyzeAs(sp, NewUuid, api_name, "platform", chat, pick)
    /\ UNCHANGED <<settings, detector, failing, spec, existing_apis, pc, idx,
                   current_embedding, duplicates, calls, prev, requests, probe>>

\* d with d[k] = v
WithField(d, k, v) == [x \in DOMAIN d \cup {k} |-> IF x = k THEN v ELSE d[x]]

\* path in spec.get("paths", {}) and method in spec["paths"][path]
HasEndpoint(sp, path, method) ==
    \E i \in 1..Len(Get(sp, "paths", <<>>)) :
        /\ sp.paths[i][1] = path
        /\ \E j \in 1..Len(sp.paths[i][2]) : sp.paths[i][2][j][1] = method

\* spec["paths"][path][method]
EndpointOf(sp, path, method) ==
    LET i == CHOOSE x \in 1..Len(sp.paths) : sp.paths[x][1] = path
        j == CHOOSE y \in 1..Len(sp.paths[i][2]) : sp.paths[i][2][y][1] = method
    IN  sp.paths[i][2][j][2]

\* the spec after spec["paths"][path][method] became endpoint
SetEndpoint(sp, path, method, endpoint) ==
    [sp EXCEPT !.paths =
        [i \in 1..Len(sp.paths) |->
            IF sp.paths[i][1] # path THEN sp.paths[i]
            ELSE <<path,
                   [j \in 1..Len(sp.paths[i][2]) |->
                       IF sp.paths[i][2][j][1] = method THEN <<method, endpoint>>
                       ELSE sp.paths[i][2][j]]>>]]

\* setdefault("requestBody", ...) and the example put under application/json;
\* a request body comes from this handler alone and has that content type
WithExample(endpoint, example) ==
    LET requestBody ==
            Get(endpoint, "requestBody",
                [content |-> <<<<"application/json", [example |-> example]>>>>])
    IN  WithField(endpoint, "requestBody",
            [requestBody EXCEPT !.content =
                [i \in 1..Len(requestBody.content) |->
                    IF requestBody.content[i][1] = "application/json"
                    THEN <<"application/json",
                           WithField(requestBody.content[i][2], "example", example)>>
                    ELSE requestBody.content[i]]])

RECURSIVE ApplyImprovements(_, _, _, _)
\* the loop of accept_improvements from improvement k on: the spec and the
\* number of improvements applied
ApplyImprovements(sp, improvements, improvement_ids, k) ==
    IF k > Len(improvements) THEN [spec |-> sp, accepted_count |-> 0]
    ELSE LET improvement  == improvements[k]
             endpoint_key == SplitFirst(improvement.endpoint)
             method       == Lower(endpoint_key[1])
             path         == endpoint_key[2]
             skipped      == \/ improvement.id \notin improvement_ids
                             \/ Len(endpoint_key) # 2
                             \/ ~HasEndpoint(sp, path, method)
             endpoint     == EndpointOf(sp, path, method)
             applied      ==
                 IF improvement.field = "description"
                 THEN SetEndpoint(sp, path, method,
                          WithField(endpoint, "description", improvement.after))
                 ELSE IF improvement.field = "example"
                 THEN SetEndpoint(sp, path, method,
                          WithExample(endpoint, Loads(improvement.after)))
                 ELSE sp
             rest         == ApplyImprovements(IF skipped THEN sp ELSE applied,
                                               improvements, improvement_ids, k + 1)
         IN  [spec           |-> rest.spec,
              accepted_count |-> rest.accepted_count + (IF skipped THEN 0 ELSE 1)]

\* the api_ids and the improvement ids a client sends
AppIds == {"uuid-" \o ToString(i) : i \in 1..MaxRequests} \cup {"unknown"}

AppImprovementIds == SUBSET (1..2)

\* api_id in api_database
InDatabase(db, api_id) == \E i \in 1..Len(db) : db[i].id = api_id

\* api_database[api_id]
RecordOf(db, api_id) == db[CHOOSE i \in 1..Len(db) : db[i].id = api_id]

\* open(file_path, "w"), json.dump(spec, f): the file is created or replaced
WriteFile(files, file_name, content) ==
    {f \in files : f[1] # file_name} \cup {<<file_name, content>>}

\* POST /analyze/accept-improvements
accept_improvements ==
    /\ pc = "app"
    /\ served < MaxRequests
    /\ served' = served + 1
    /\ \E api_id \in AppIds, improvement_ids \in AppImprovementIds :
          /\ request' = [handler |-> "accept_improvements", api_id |-> api_id]
          /\ IF ~InDatabase(api_database, api_id)
             THEN \* the 404 is raised inside the try and caught by its except
                  /\ response' = [status |-> 500]
                  /\ UNCHANGED <<api_database, history_store, improved_files>>
             ELSE LET api_data == RecordOf(api_database, api_id)
                      done     == ApplyImprovements(api_data.spec,
                                      api_data.improvements, improvement_ids, 1)
                      left     == SelectSeq(api_data.improvements,
                                      LAMBDA imp : imp.id \notin improvement_ids)
                  IN  /\ api_database' =
                             Store(api_database,
                                   [api_data EXCEPT !.spec = done.spec,
                                                    !.improvements = left])
                      /\ history_store' = Calculate(history_store, api_id)
                      /\ improved_files' =
                             WriteFile(improved_files,
                                       ReplaceWith(api_data.name, " ", "_")
                                           \o "_improved.json",
                                       done.spec)
                      /\ response' = [status |-> 200]
    /\ UNCHANGED <<settings, detector, failing, spec, existing_apis, pc, idx,
                   current_embedding, duplicates, calls, prev, requests, probe>>

\* apis.py, DELETE /apis/{api_id}; the 404 is raised outside any try
delete_api ==
    /\ pc = "app"
    /\ \E api_id \in AppIds :
          /\ request' = [handler |-> "delete_api", api_id |-> api_id]
          /\ IF ~InDatabase(api_database, api_id)
             THEN /\ response' = [status |-> 404]
                  /\ UNCHANGED api_database
             ELSE /\ response' = [status |-> 200]
                  /\ api_database' =
                         SelectSeq(api_database, LAMBDA v : v.id # api_id)
    /\ UNCHANGED <<history_store, improved_files, served>>
    /\ UNCHANGED <<settings, detector, failing, spec, existing_apis, pc, idx,
                   current_embedding, duplicates, calls, prev, requests, probe>>

InitApp ==
    /\ settings \in SettingsPool
    /\ detector = BuildDetector(settings)
    /\ failing \in {{}, {UsersText}}
    /\ spec = UsersSpec
    /\ existing_apis = <<>>
    /\ pc = "app"
    /\ idx = 0
    /\ current_embedding = NoVec
    /\ duplicates = <<>>
    /\ calls = 0
    /\ prev = <<>>
    /\ requests = <<>>
    /\ probe = NoProbe
    /\ AppInit

NextApp ==
    \/ analyze_api
    \/ analyze_text
    \/ accept_improvements
    \/ delete_api

SpecApp == InitApp /\ [][NextApp]_vars

(***************************************************************************)
(* Properties.                                                             *)
(***************************************************************************)
\* the position in existing_apis of the record a finding was made from
RecIndex(api_id) ==
    CHOOSE i \in 1..Len(existing_apis) : existing_apis[i].id = api_id

\* the similarity find_duplicates computes for record i
RecSimilarity(i) ==
    CosineSimilarity(current_embedding,
                     ExistingEmbedding(detector, existing_apis[i]))

\* the findings made from record i
FindingsOf(i) ==
    {k \in 1..Len(duplicates) : duplicates[k].api_id = existing_apis[i].id}

\* the similarity is exactly pct / 100
SimIs(s, pct) == SimGE(s, pct) /\ ~SimGT(s, pct)

\* C1: the returned list is ordered by overlap from highest to lowest, and
\* findings of equal overlap keep the relative order of their records in the
\* input sequence.
C1_SortedDescendingStable ==
    pc = "done" =>
        \A i, j \in 1..Len(duplicates) :
            i < j =>
                /\ duplicates[i].overlap >= duplicates[j].overlap
                /\ duplicates[i].overlap = duplicates[j].overlap =>
                       RecIndex(duplicates[i].api_id) < RecIndex(duplicates[j].api_id)

\* a returned list with two findings of equal overlap
C1_Witness ==
    /\ pc = "done"
    /\ Len(duplicates) >= 2
    /\ duplicates[1].overlap = duplicates[2].overlap

\* C2: a record whose name equals the current spec's title is in no finding,
\* whatever its similarity and with or without a cached embedding.
C2_SelfExcluded ==
    \A k \in 1..Len(duplicates) :
        \A i \in 1..Len(existing_apis) :
            existing_apis[i].id = duplicates[k].api_id =>
                existing_apis[i].name # TitleOf(spec)

\* a finished call over two records named like the current spec, one cached and
\* one not, both of similarity 1.0
C2_Witness ==
    /\ pc = "done"
    /\ \E i, j \in 1..Len(existing_apis) :
           /\ existing_apis[i].name = TitleOf(spec)
           /\ existing_apis[j].name = TitleOf(spec)
           /\ "embedding" \in DOMAIN existing_apis[i]
           /\ "embedding" \notin DOMAIN existing_apis[j]
           /\ ~IsError(RecSimilarity(i)) /\ SimIs(RecSimilarity(i), 100)
           /\ ~IsError(RecSimilarity(j)) /\ SimIs(RecSimilarity(j), 100)

\* record i is not excluded by name and its similarity is at least the
\* detector's threshold
Reportable(i) ==
    /\ existing_apis[i].name # TitleOf(spec)
    /\ SimGE(RecSimilarity(i), detector.threshold)

\* C3: the returned list holds exactly one finding for each non-excluded record
\* whose similarity is at least the threshold and none for any other record, so
\* it is empty when there are no records or all are below the threshold.
C3_OneFindingPerMatch ==
    pc = "done" =>
        /\ \A i \in 1..Len(existing_apis) :
               Cardinality(FindingsOf(i)) = IF Reportable(i) THEN 1 ELSE 0
        /\ \A k \in 1..Len(duplicates) :
               \E i \in 1..Len(existing_apis) : k \in FindingsOf(i)
        /\ (\A i \in 1..Len(existing_apis) : ~Reportable(i)) => duplicates = <<>>

\* a returned list with a record exactly at the threshold and one below it
C3_Witness ==
    /\ pc = "done"
    /\ \E i, j \in 1..Len(existing_apis) :
           /\ existing_apis[i].name # TitleOf(spec)
           /\ existing_apis[j].name # TitleOf(spec)
           /\ SimIs(RecSimilarity(i), detector.threshold)
           /\ ~SimGE(RecSimilarity(j), detector.threshold)
           /\ FindingsOf(i) # {}
           /\ FindingsOf(j) = {}

\* C4: the overlap of every finding is round(similarity * 100).
C4_OverlapIsRounded ==
    \A k \in 1..Len(duplicates) :
        duplicates[k].overlap =
            RoundPct(RecSimilarity(RecIndex(duplicates[k].api_id)))

\* the vectors find_duplicates would compare had the client not raised
TrueCurrentEmbedding ==
    ClientEmbedding(detector.embedding_model, SummarizeApi(spec))

TrueExistingEmbedding(i) ==
    IF "embedding" \in DOMAIN existing_apis[i]
    THEN existing_apis[i].embedding
    ELSE ClientEmbedding(detector.embedding_model,
                         SummarizeApi(existing_apis[i].spec))

TrueSimilarity(i) ==
    CosineSimilarity(TrueCurrentEmbedding, TrueExistingEmbedding(i))

\* the comparison with record i uses a vector substituted for a failed embedding
FellBack(i) ==
    \/ SummarizeApi(spec) \in failing
    \/ /\ "embedding" \notin DOMAIN existing_apis[i]
       /\ SummarizeApi(existing_apis[i].spec) \in failing

\* C5: a failed embedding does not abort find_duplicates: the call raises only
\* where it would raise without the failure, a comparison that uses the
\* substituted zero vector yields no finding, and every other record is
\* reported as if the failure had not happened.
C5_FailSoft ==
    /\ pc = "failed" => IsError(TrueSimilarity(idx))
    /\ pc = "done" =>
           \A i \in 1..Len(existing_apis) :
               existing_apis[i].name # TitleOf(spec) =>
                   IF FellBack(i) THEN FindingsOf(i) = {}
                   ELSE (FindingsOf(i) # {}) <=>
                            SimGE(TrueSimilarity(i), detector.threshold)

\* the comparison find_duplicates is about to make is of vectors of different
\* dimensionality
MismatchAtIdx ==
    /\ pc = "loop"
    /\ idx <= Len(existing_apis)
    /\ existing_apis[idx].name # TitleOf(spec)
    /\ current_embedding.dim # ExistingEmbedding(detector, existing_apis[idx]).dim

\* C6: cosine similarity of two vectors of different dimensionality raises, and
\* find_duplicates passes the error to its caller instead of scoring the
\* record or returning a list.
C6_MismatchSurfaces ==
    [][MismatchAtIdx => (pc' = "failed" /\ Outcome'.status = "raised")]_vars

\* a call ended by the error of a comparison of vectors of different sizes
C6_Witness ==
    /\ pc = "failed"
    /\ current_embedding.dim # ExistingEmbedding(detector, existing_apis[idx]).dim

\* C7: the threshold compared against is the configured DUPLICATE_THRESHOLD: no
\* record below the configured value is reported.
C7_ThresholdFromSettings ==
    pc = "done" =>
        \A i \in 1..Len(existing_apis) :
            FindingsOf(i) # {} =>
                SimGE(RecSimilarity(i), settings.DUPLICATE_THRESHOLD)

\* C8: find_duplicates leaves the current spec and every existing record as
\* they were, cached embedding present or absent, in every step of a call.
C8_InputsUnchanged ==
    [][spec' = spec /\ existing_apis' = existing_apis]_vars

\* a call that returned a finding made with an embedding it computed itself
C8_Witness ==
    /\ pc = "done"
    /\ \E i \in 1..Len(existing_apis) :
           /\ "embedding" \notin DOMAIN existing_apis[i]
           /\ FindingsOf(i) # {}

\* C9: a second call with the same spec, records and embedding client gives the
\* caller the same outcome as the first, whatever the iteration orders of the
\* path sets.
C9_Deterministic ==
    (pc \in {"done", "failed"} /\ prev # <<>>) => Outcome = prev[Len(prev)]

\* a second call that returned a finding whose endpoint count comes from a
\* fuzzy match alone
C9_Witness ==
    /\ pc = "done"
    /\ prev # <<>>
    /\ \E k \in 1..Len(duplicates) :
           /\ duplicates[k].endpoints >= 1
           /\ duplicates[k].details = <<"Similar API functionality">>

\* the three recommendation texts
DeprecateText(current_name, existing_name) ==
    "High overlap detected. Consider deprecating " \o existing_name
    \o " and migrating consumers to " \o current_name

ConsolidateText ==
    "Moderate overlap. Consider consolidating overlapping functionality"

ReviewText == "Some similarity detected. Review for potential alignment"

TierText(overlap, current_name, existing_name) ==
    IF overlap >= 85 THEN DeprecateText(current_name, existing_name)
    ELSE IF overlap >= 70 THEN ConsolidateText
    ELSE ReviewText

\* C10: the recommendation is tiered by the overlap: at 85 and above the
\* deprecate text, which names the existing record's API as the one to
\* deprecate and the current spec's API as the one to migrate to; from 70 to 84
\* the consolidate text; below 70 the review text. A finding of similarity 0.85
\* has overlap 85 and the deprecate text.
C10_RecommendationTiers ==
    /\ probe.fn = "recommendation" =>
           probe.out = TierText(probe.overlap, probe.api1_name, probe.api2_name)
    /\ probe.fn = "finding" =>
           /\ probe.out.recommendation =
                  TierText(probe.out.overlap, TitleOf(spec), probe.existing_api.name)
           /\ SimIs(probe.similarity, 85) =>
                  /\ probe.out.overlap = 85
                  /\ probe.out.recommendation =
                         DeprecateText(TitleOf(spec), probe.existing_api.name)

\* the finding of a record of similarity exactly 0.85
C10_Witness ==
    /\ probe.fn = "finding"
    /\ SimIs(probe.similarity, 85)
    /\ probe.out.overlap = 85

\* the requests made to the embedding client for record i (0: the current spec)
RequestsFor(i) == {k \in 1..Len(requests) : requests[k].for = i}

\* C11: in one call the embedding client is asked exactly once for the current
\* spec, exactly once for each non-excluded record without cached embedding,
\* never for a record that is cached or excluded by name, and a cached record
\* is scored with its cached vector.
C11_EmbeddingRequests ==
    /\ pc \in {"loop", "done", "failed"} =>
           /\ Cardinality(RequestsFor(0)) = 1
           /\ \A k \in RequestsFor(0) : requests[k].text = SummarizeApi(spec)
    /\ \A i \in 1..Len(existing_apis) :
           LET excluded == existing_apis[i].name = TitleOf(spec)
               cached   == "embedding" \in DOMAIN existing_apis[i]
           IN  /\ Cardinality(RequestsFor(i)) <= 1
               /\ (excluded \/ cached) => RequestsFor(i) = {}
               /\ (pc = "done" /\ ~excluded /\ ~cached) =>
                      /\ Cardinality(RequestsFor(i)) = 1
                      /\ \A k \in RequestsFor(i) :
                             requests[k].text = SummarizeApi(existing_apis[i].spec)
               /\ (pc = "done" /\ ~excluded /\ cached) =>
                      LET s == CosineSimilarity(current_embedding,
                                                existing_apis[i].embedding)
                      IN  /\ (FindingsOf(i) # {}) <=> SimGE(s, detector.threshold)
                          /\ \A k \in FindingsOf(i) :
                                 duplicates[k].overlap = IntPct(s)

\* a finished call over a cached record that was reported and a record that
\* had to be embedded
C11_Witness ==
    /\ pc = "done"
    /\ Len(requests) = 2
    /\ \E i, j \in 1..Len(existing_apis) :
           /\ existing_apis[i].name # TitleOf(spec)
           /\ "embedding" \in DOMAIN existing_apis[i]
           /\ FindingsOf(i) # {}
           /\ existing_apis[j].name # TitleOf(spec)
           /\ "embedding" \notin DOMAIN existing_apis[j]

\* the paths of A that are not in B and have a fuzzy match in B
FuzzyOnly(A, B) == {p \in A \ B : \E q \in B : PathsSimilar(p, q)}

\* C12: the endpoint-overlap count of A and B is |A \cap B| plus the number
\* of paths of A \ B that have at least one fuzzy match in B, whatever the
\* number of matches and the iteration orders; it never exceeds |A|.
C12_CountIsExactPlusFuzzy ==
    probe.fn = "count" =>
        /\ probe.out = Cardinality(probe.A \cap probe.B)
                       + Cardinality(FuzzyOnly(probe.A, probe.B))
        /\ probe.out <= Cardinality(probe.A)

\* a path of A is in B and also similar to another path of B, and another
\* path of A has only a fuzzy match
C12_Witness ==
    /\ probe.fn = "count"
    /\ \E p \in probe.A \cap probe.B :
          \E q \in probe.B \ {p} : PathsSimilar(p, q)
    /\ FuzzyOnly(probe.A, probe.B) # {}
    /\ probe.out = 2

ScenarioA == {"/users/{id}", "/orders"}
ScenarioB == {"/user/{userId}", "/orders"}

\* C13 as stated: for A = {"/users/{id}", "/orders"} and
\* B = {"/user/{userId}", "/orders"} the endpoint-overlap count is 2.
C13_ScenarioCountIsTwo ==
    (probe.fn = "count" /\ probe.A = ScenarioA /\ probe.B = ScenarioB)
        => probe.out = 2

\* C13: for A = {"/users/{id}", "/orders"} and B = {"/user/{userId}", "/orders"}
\* the endpoint-overlap count is 1: the exact match "/orders" and no fuzzy
\* match, "/users/{id}" and "/user/{userId}" are not a fuzzy match of each
\* other in either direction.
C13_ScenarioCountIsOne ==
    (probe.fn = "count" /\ probe.A = ScenarioA /\ probe.B = ScenarioB)
        => /\ probe.out = 1
           /\ Cardinality(probe.A \cap probe.B) = 1
           /\ ~PathsSimilar("/users/{id}", "/user/{userId}")
           /\ ~PathsSimilar("/user/{userId}", "/users/{id}")

C13_Witness ==
    /\ probe.fn = "count"
    /\ probe.A = ScenarioA
    /\ probe.B = ScenarioB
    /\ probe.out = 1

RECURSIVE WithoutChars(_, _, _)
\* s from position k on, without the characters of the set cs
WithoutChars(s, cs, k) ==
    IF k > Len(s) THEN ""
    ELSE (IF SubSeq(s, k, k) \in cs THEN "" ELSE SubSeq(s, k, k))
         \o WithoutChars(s, cs, k + 1)

RECURSIVE WithoutId(_, _)
\* s from position k on, without the occurrences of "id", left to right
WithoutId(s, k) ==
    IF k > Len(s) THEN ""
    ELSE IF k < Len(s) /\ SubSeq(s, k, k + 1) = "id" THEN WithoutId(s, k + 2)
    ELSE SubSeq(s, k, k) \o WithoutId(s, k + 1)

\* braces out, then "id" out, then underscores out, then lowercased
NormalForm(path) ==
    Lower(WithoutChars(WithoutId(WithoutChars(path, {"{", "}"}, 1), 1), {"_"}, 1))

RECURSIVE OccursAt(_, _, _)
\* sub occurs in s at position k or later
OccursAt(sub, s, k) ==
    IF k + Len(sub) - 1 > Len(s) THEN FALSE
    ELSE SubSeq(s, k, k + Len(sub) - 1) = sub \/ OccursAt(sub, s, k + 1)

\* C14: two paths are a fuzzy match exactly when one of their normal forms
\* (braces, "id" and underscores removed, lowercased) contains the other;
\* the relation is reflexive and symmetric.
C14_FuzzyMatchRule ==
    probe.fn = "similar" =>
        /\ probe.out <=> (\/ OccursAt(NormalForm(probe.path1), NormalForm(probe.path2), 1)
                          \/ OccursAt(NormalForm(probe.path2), NormalForm(probe.path1), 1))
        /\ probe.path1 = probe.path2 => probe.out
        /\ probe.out <=> probe.swapped

\* a match by containment in one direction only, of two different normal forms
C14_Witness ==
    /\ probe.fn = "similar"
    /\ probe.out
    /\ ~OccursAt(NormalForm(probe.path1), NormalForm(probe.path2), 1)
    /\ OccursAt(NormalForm(probe.path2), NormalForm(probe.path1), 1)
    /\ NormalForm(probe.path1) # probe.path1

\* the path strings and the schema names two specs have in common
CommonPaths(spec1, spec2) ==
    {p \in ProbePaths \cup PoolPaths :
        /\ "paths" \in DOMAIN spec1 /\ "paths" \in DOMAIN spec2
        /\ \E i \in 1..Len(spec1.paths) : spec1.paths[i][1] = p
        /\ \E j \in 1..Len(spec2.paths) : spec2.paths[j][1] = p}

SchemasIn(sp) ==
    IF "components" \in DOMAIN sp /\ "schemas" \in DOMAIN sp.components
    THEN {sp.components.schemas[i][1] : i \in 1..Len(sp.components.schemas)}
    ELSE {}

EndpointsFact(n) == "Both expose " \o ToString(n) \o " identical endpoints"
SchemasFact(n) == "Share " \o ToString(n) \o " common data models"
FallbackFact == "Similar API functionality"

\* C15: the overlap details are never empty and have at most two entries: the
\* endpoints fact is present iff the specs share N >= 1 path strings, the
\* schemas fact iff they share N >= 1 schema names, the endpoints fact comes
\* first, and the list is the fallback alone iff they share neither.
C15_OverlapDetails ==
    probe.fn = "details" =>
        LET np  == Cardinality(CommonPaths(probe.spec1, probe.spec2))
            ns  == Cardinality(SchemasIn(probe.spec1) \cap SchemasIn(probe.spec2))
            out == probe.out
            Has(x) == \E k \in 1..Len(out) : out[k] = x
        IN  /\ Len(out) >= 1 /\ Len(out) <= 2
            /\ np >= 1 <=> \E n \in 1..np : Has(EndpointsFact(n))
            /\ np >= 1 => out[1] = EndpointsFact(np)
            /\ ns >= 1 <=> \E n \in 1..ns : Has(SchemasFact(n))
            /\ ns >= 1 => out[Len(out)] = SchemasFact(ns)
            /\ (np >= 1 /\ ns >= 1) => Len(out) = 2
            /\ (np = 0 /\ ns = 0) <=> out = <<FallbackFact>>
            /\ (np = 0 /\ ns = 0) <=> Has(FallbackFact)

\* two specs sharing one path and one schema: both facts, endpoints first
C15_Witness ==
    /\ probe.fn = "details"
    /\ probe.out = <<EndpointsFact(1), SchemasFact(1)>>
    /\ probe.spec1 # probe.spec2

\* C16: for two vectors of the same size, one of them of zero magnitude, the
\* cosine similarity is 0.0 and nothing is raised.
C16_ZeroMagnitude ==
    (/\ probe.fn = "cosine"
     /\ probe.vec1.dim = probe.vec2.dim
     /\ \/ \A i \in 1..Len(probe.vec1.nz) : probe.vec1.nz[i] = 0
        \/ \A i \in 1..Len(probe.vec2.nz) : probe.vec2.nz[i] = 0)
        => /\ ~IsError(probe.out)
           /\ probe.out.num = 0
           /\ probe.out.den2 > 0

\* a zero vector against a non-zero vector of the same size
C16_Witness ==
    /\ probe.fn = "cosine"
    /\ probe.vec1 = Vec(1536, <<0, 0>>)
    /\ probe.vec2 = Vec(1536, <<4, 3>>)
    /\ probe.out = Sim(0, 1)

\* the summaries of the specs, written out
ExpectedSummary(sp) ==
    IF sp = UsersSpec
    THEN "Users API Manage users /users/{id} Get user /orders Create order"
    ELSE IF sp = AccountsSpec
    THEN "Accounts API /user/{userId} Read account /orders"
    ELSE IF sp = BillingSpec
    THEN "Billing API Invoices /invoices List invoices"
    ELSE IF sp = SearchSpec
    THEN "Search API /search /invoices/{id}"
    ELSE IF sp = OrdersSpec
    THEN "/orders"
    ELSE ""

\* C17: the summary is the single-space join of the title, the description
\* and, path by path in the spec's order, the path and the summary and
\* description of its get/post/put/delete/patch entries; empty and missing
\* fields leave no token and no doubled separator, other keys add nothing.
C17_SummaryJoin ==
    probe.fn = "summary" =>
        /\ probe.out = ExpectedSummary(probe.spec)
        /\ ~OccursAt("  ", probe.out, 1)
        /\ probe.out # "" =>
               /\ SubSeq(probe.out, 1, 1) # " "
               /\ SubSeq(probe.out, Len(probe.out), Len(probe.out)) # " "

\* a spec with a missing description, an empty description, a key that is not
\* a verb and a path without entries
C17_Witness ==
    /\ probe.fn = "summary"
    /\ probe.spec = AccountsSpec
    /\ "description" \notin DOMAIN probe.spec.info
    /\ probe.out = "Accounts API /user/{userId} Read account /orders"

\* C18: every finding of find_duplicates has an overlap from 70 to 100 and
\* the deprecate or the consolidate text, never the review text.
C18_FindingsAtOrAboveGate ==
    \A k \in 1..Len(duplicates) :
        /\ duplicates[k].overlap \in 70..100
        /\ duplicates[k].recommendation # ReviewText
        /\ \/ duplicates[k].recommendation = ConsolidateText
           \/ duplicates[k].recommendation =
                  DeprecateText(TitleOf(spec), duplicates[k].name)

\* a returned list with a finding at the gate and a finding of the top tier,
\* while a third record stays below the gate
C18_Witness ==
    /\ pc = "done"
    /\ \E k \in 1..Len(duplicates) :
          /\ duplicates[k].overlap = 70
          /\ duplicates[k].recommendation = ConsolidateText
    /\ \E k \in 1..Len(duplicates) :
          /\ duplicates[k].overlap >= 85
          /\ duplicates[k].recommendation # ConsolidateText

\* C19: the count depends on the order of its arguments: for A = {"/a", "/ab"}
\* and B = {"/abc"} it is 2, and 1 with the arguments exchanged, while the
\* number of exact matches is the same.
C19_CountNotSymmetric ==
    (probe.fn = "count" /\ probe.A = {"/a", "/ab"} /\ probe.B = {"/abc"})
        => /\ probe.out = 2
           /\ probe.swapped = 1
           /\ probe.out # probe.swapped
           /\ probe.out - Cardinality(FuzzyOnly(probe.A, probe.B))
                  = probe.swapped - Cardinality(FuzzyOnly(probe.B, probe.A))

C19_Witness ==
    /\ probe.fn = "count"
    /\ probe.A = {"/a", "/ab"}
    /\ probe.B = {"/abc"}
    /\ probe.out # probe.swapped

\* C20: no record of api_database has, in its stored duplicates, a finding
\* whose api_id is the record's own id.
C20_NoSelfDuplicate ==
    \A i \in 1..Len(api_database) :
        \A k \in 1..Len(api_database[i].duplicates) :
            api_database[i].duplicates[k].api_id # api_database[i].id

C22_ClientErrorsKeepTheirStatus ==
    /\ (/\ request.handler \in {"analyze_api", "analyze_text"}
        /\ ~Validate(request.spec))
           => response.status = 400
    /\ (/\ request.handler = "accept_improvements"
        /\ ~InDatabase(api_database, request.api_id))
           => response.status = 404

\* C23: no two records of api_database have the same name.
C23_NamesAreUnique ==
    \A i, j \in 1..Len(api_database) :
        i # j => api_database[i].name # api_database[j].name
=============================================================================
